---------------------------- MODULE Spec2Model ----------------------------
(***************************************************************************)
(* The Munkres (Hungarian) assignment solver of src/hungarian.cpp as a     *)
(* state machine: one solve call, from the copy of the caller's matrix to  *)
(* the returned cost.  T is int, as in main: 32 bits, two's complement.    *)
(*                                                                         *)
(* Matrices and vectors are functions on 0..n-1, as the source indexes     *)
(* them.  Signed overflow, an index past the end of a vector and the       *)
(* dereference of begin() of an empty container are undefined behaviour:   *)
(* each is modelled as a choice between the run stopping there             *)
(* (pc = "crashed") and the run going on with the value the usual build    *)
(* produces (the wrapped sum, the entry stored past the buffer); ub names  *)
(* the first one a run has met.                                            *)
(***************************************************************************)
EXTENDS Integers, FiniteSets, Sequences, TLC

(* ------------------------------ bounds -------------------------------- *)

\* The inputs have at most MaxDim rows and at most MaxDim columns.
MaxDim == 3
\* Their entries lie in -MaxNeg .. MaxVal.
MaxNeg == 1
MaxVal == 1
\* The shift law is tried for the constants -MaxShift .. MaxShift.
MaxShift == 1
\* The inputs with entries at the ends of T's range have at most MaxWideDim
\* rows and columns.
MaxWideDim == 2

(* ------------------------------ type T -------------------------------- *)

\* std::numeric_limits<int>::max()
TMax == 2147483647
TMin == -TMax - 1

\* a + b leaves the range of T
AddOvf(a, b) == IF b >= 0 THEN a > TMax - b ELSE a < TMin - b
\* a - b leaves the range of T
SubOvf(a, b) == IF b >= 0 THEN a < TMin + b ELSE a > TMax + b

\* a + b in 32-bit two's complement
WrapAdd(a, b) ==
    IF ~AddOvf(a, b) THEN a + b
    ELSE IF b >= 0 THEN (a + TMin) + (b + TMin)
    ELSE (a - TMin) + (b - TMin)

\* a - b in 32-bit two's complement
WrapSub(a, b) ==
    IF ~SubOvf(a, b) THEN a - b
    ELSE IF b >= 0 THEN ((a - TMin) - b) - TMin
    ELSE ((a + TMin) - b) + TMin

\* abs(int): abs(INT_MIN) is not representable and comes back as INT_MIN
Abs(a) == IF a = TMin THEN TMin ELSE IF a < 0 THEN -a ELSE a

(* ----------------------------- containers ----------------------------- *)

\* v.size()
Size(v) == Cardinality(DOMAIN v)

\* the least element of a non-empty finite set of integers
Least(S) == CHOOSE x \in S : \A y \in S : x <= y

\* the greatest element of a non-empty finite set of integers
Greatest(S) == CHOOSE x \in S : \A y \in S : x >= y

\* a tuple of tuples as a matrix indexed from 0
Mat(rows) ==
    [i \in 0..(Len(rows) - 1) |->
        [j \in 0..(Len(rows[i + 1]) - 1) |-> rows[i + 1][j + 1]]]

\* std::vector<int>(n, 0)
Zeros(n) == [i \in 0..(n - 1) |-> 0]

\* std::vector<std::vector<int>>(n, std::vector<int>(k, 0))
ZeroMatrix(n, k) == [i \in 0..(n - 1) |-> Zeros(k)]

(* ---------------------------- preprocessing --------------------------- *)

\* every entry of a matrix
Entries(matrix) ==
    UNION {{matrix[i][j] : j \in DOMAIN matrix[i]} : i \in DOMAIN matrix}

\* handle_negatives without its throw: a negative least entry is shifted
\* away whatever allow_negatives says.
handle_negatives_no_throw(matrix, allowed) ==
    LET minval == Least(Entries(matrix) \cup {TMax})
        shift  == Abs(minval)
    IN  IF minval < 0
        THEN [thrown |-> FALSE,
              matrix |-> [i \in DOMAIN matrix |->
                            [j \in DOMAIN matrix[i] |->
                               WrapAdd(matrix[i][j], shift)]],
              ovf    |-> \/ minval = TMin
                         \/ \E x \in Entries(matrix) : AddOvf(x, shift)]
        ELSE [thrown |-> FALSE, matrix |-> matrix, ovf |-> FALSE]

\* handle_negatives: the least entry is looked for; when it is negative the
\* call throws (allowed = false) or adds abs(minval) to every entry.
\* ovf: abs(minval) or one of the additions left the range of T.
handle_negatives(matrix, allowed) ==
    LET minval == Least(Entries(matrix) \cup {TMax})
        shift  == Abs(minval)
    IN  IF minval < 0
        THEN IF ~allowed
             THEN [thrown |-> TRUE, matrix |-> matrix, ovf |-> FALSE]
             ELSE [thrown |-> FALSE,
                   matrix |-> [i \in DOMAIN matrix |->
                                 [j \in DOMAIN matrix[i] |->
                                    WrapAdd(matrix[i][j], shift)]],
                   ovf    |-> \/ minval = TMin
                              \/ \E x \in Entries(matrix) : AddOvf(x, shift)]
        ELSE [thrown |-> FALSE, matrix |-> matrix, ovf |-> FALSE]

\* pad_matrix: dummy columns (more rows than columns) or dummy rows (more
\* columns than rows) of numeric_limits<T>::max() make the matrix square.
\* j_size is matrix[0].size(), which the caller has read already.
pad_matrix(matrix, j_size) ==
    LET i_size == Size(matrix)
    IN  IF i_size > j_size
        THEN [i \in 0..(i_size - 1) |->
                [j \in 0..(i_size - 1) |->
                    IF j < j_size THEN matrix[i][j] ELSE TMax]]
        ELSE IF i_size < j_size
        THEN [i \in 0..(j_size - 1) |->
                IF i < i_size THEN matrix[i]
                ELSE [j \in 0..(j_size - 1) |-> TMax]]
        ELSE matrix

\* clear_covers
clear_covers(cover) == [n \in DOMAIN cover |-> 0]

(* ------------------------------ the steps ----------------------------- *)

\* step1: the least element of each row is subtracted from the row when it
\* is positive.  No subtraction leaves the range: 0 < smallest <= n.
step1(matrix) ==
    [i \in DOMAIN matrix |->
        LET smallest == Least({matrix[i][j] : j \in DOMAIN matrix[i]})
        IN  IF smallest > 0
            THEN [j \in DOMAIN matrix[i] |-> matrix[i][j] - smallest]
            ELSE matrix[i]]

\* step2's nested loop from cell k on (k = r * sz + c, row-major): a zero
\* whose row and column are uncovered is starred and both are covered.
RECURSIVE step2_scan(_, _, _, _, _)
step2_scan(matrix, M, RowCover, ColCover, k) ==
    LET sz == Size(matrix)
        rr == k \div sz
        cc == k % sz
    IN  IF sz = 0 \/ k >= sz * sz THEN M
        ELSE IF matrix[rr][cc] = 0 /\ RowCover[rr] = 0 /\ ColCover[cc] = 0
        THEN step2_scan(matrix,
                        [M EXCEPT ![rr][cc] = 1],
                        [RowCover EXCEPT ![rr] = 1],
                        [ColCover EXCEPT ![cc] = 1],
                        k + 1)
        ELSE step2_scan(matrix, M, RowCover, ColCover, k + 1)

\* step2: the mask after the scan; the covers are cleared by the caller of
\* this operator, as lines 143-144 do.
step2(matrix, M, RowCover, ColCover) ==
    step2_scan(matrix, M, RowCover, ColCover, 0)

\* step3 that goes on to Step 5 in place of Step 4
step3_goes_to_step5(M, ColCover) ==
    LET cov == [cc \in DOMAIN ColCover |->
                   IF \E rr \in DOMAIN M : M[rr][cc] = 1 THEN 1
                   ELSE ColCover[cc]]
        colcount == Cardinality({cc \in DOMAIN cov : cov[cc] = 1})
    IN  [ColCover |-> cov,
         step     |-> IF colcount >= Size(M) THEN 7 ELSE 5]

\* step3 with its test one short: sz - 1 covered columns end the loop.
step3_one_short(M, ColCover) ==
    LET cov == [cc \in DOMAIN ColCover |->
                   IF \E rr \in DOMAIN M : M[rr][cc] = 1 THEN 1
                   ELSE ColCover[cc]]
        colcount == Cardinality({cc \in DOMAIN cov : cov[cc] = 1})
    IN  [ColCover |-> cov,
         step     |-> IF colcount >= Size(M) - 1 THEN 7 ELSE 4]

\* step3: every column holding a star is covered; with sz covered columns
\* the next step is 7, otherwise 4.
step3(M, ColCover) ==
    LET cov == [cc \in DOMAIN ColCover |->
                   IF \E rr \in DOMAIN M : M[rr][cc] = 1 THEN 1
                   ELSE ColCover[cc]]
        colcount == Cardinality({cc \in DOMAIN cov : cov[cc] = 1})
    IN  [ColCover |-> cov,
         step     |-> IF colcount >= Size(M) THEN 7 ELSE 4]

\* find_a_zero: the first zero, in row-major order, whose row and column
\* are uncovered, as <<row, col>>; <<-1, -1>> when there is none.
find_a_zero(matrix, RowCover, ColCover) ==
    LET sz   == Size(matrix)
        hits == {k \in 0..(sz * sz - 1) :
                    /\ matrix[k \div sz][k % sz] = 0
                    /\ RowCover[k \div sz] = 0
                    /\ ColCover[k % sz] = 0}
    IN  IF hits = {} THEN <<-1, -1>>
        ELSE <<Least(hits) \div sz, Least(hits) % sz>>

\* star_in_row
star_in_row(row, M) == \E cc \in DOMAIN M : M[row][cc] = 1

\* find_star_in_row: the last column of the row that holds a star, or -1
find_star_in_row(row, M) ==
    LET cs == {cc \in DOMAIN M : M[row][cc] = 1}
    IN  IF cs = {} THEN -1 ELSE Greatest(cs)

\* One iteration of step4's loop that uncovers the column of the star and
\* leaves the row of the new prime uncovered.
step4_leaves_row_uncovered(matrix, M, RowCover, ColCover, path_row_0, path_col_0) ==
    LET z   == find_a_zero(matrix, RowCover, ColCover)
        row == z[1]
        col == z[2]
        M2  == [M EXCEPT ![row][col] = 2]
    IN  IF row = -1
        THEN [done |-> TRUE, step |-> 6, M |-> M,
              RowCover |-> RowCover, ColCover |-> ColCover,
              path_row_0 |-> path_row_0, path_col_0 |-> path_col_0]
        ELSE IF star_in_row(row, M2)
        THEN [done |-> FALSE, step |-> 4, M |-> M2,
              RowCover |-> RowCover,
              ColCover |-> [ColCover EXCEPT ![find_star_in_row(row, M2)] = 0],
              path_row_0 |-> path_row_0, path_col_0 |-> path_col_0]
        ELSE [done |-> TRUE, step |-> 5, M |-> M2,
              RowCover |-> RowCover, ColCover |-> ColCover,
              path_row_0 |-> row, path_col_0 |-> col]

\* One iteration of step4's while loop (lines 252-273).  done: the loop
\* ends with this iteration and step is the next step.
step4(matrix, M, RowCover, ColCover, path_row_0, path_col_0) ==
    LET z   == find_a_zero(matrix, RowCover, ColCover)
        row == z[1]
        col == z[2]
        M2  == [M EXCEPT ![row][col] = 2]
    IN  IF row = -1
        THEN [done |-> TRUE, step |-> 6, M |-> M,
              RowCover |-> RowCover, ColCover |-> ColCover,
              path_row_0 |-> path_row_0, path_col_0 |-> path_col_0]
        ELSE IF star_in_row(row, M2)
        THEN [done |-> FALSE, step |-> 4, M |-> M2,
              RowCover |-> [RowCover EXCEPT ![row] = 1],
              ColCover |-> [ColCover EXCEPT ![find_star_in_row(row, M2)] = 0],
              path_row_0 |-> path_row_0, path_col_0 |-> path_col_0]
        ELSE [done |-> TRUE, step |-> 5, M |-> M2,
              RowCover |-> RowCover, ColCover |-> ColCover,
              path_row_0 |-> row, path_col_0 |-> col]

\* find_star_in_col: the last row of the column that holds a star, or -1
find_star_in_col(cc, M) ==
    LET rs == {i \in DOMAIN M : M[i][cc] = 1}
    IN  IF rs = {} THEN -1 ELSE Greatest(rs)

\* find_prime_in_row with find_star_in_row's test: the last column of the
\* row that holds a star.
find_prime_in_row_finds_star(rr, cc, M) ==
    LET js == {j \in DOMAIN M : M[rr][j] = 1}
    IN  IF js = {} THEN cc ELSE Greatest(js)

\* find_prime_in_row: the last column of the row that holds a prime; the
\* caller's c is left as it was when the row holds none.
find_prime_in_row(rr, cc, M) ==
    LET js == {j \in DOMAIN M : M[rr][j] = 2}
    IN  IF js = {} THEN cc ELSE Greatest(js)

\* M[i][j] is a cell of the mask
InMask(M, i, j) == i \in DOMAIN M /\ j \in DOMAIN M[i]

\* augment_path that unmarks no star: every cell of the path is starred.
RECURSIVE augment_path_keeps_stars(_, _, _, _)
augment_path_keeps_stars(path, path_count, M, p) ==
    IF p >= path_count THEN M
    ELSE IF ~InMask(M, path[p][1], path[p][2])
    THEN augment_path_keeps_stars(path, path_count, M, p + 1)
    ELSE augment_path_keeps_stars(path, path_count,
                                  [M EXCEPT ![path[p][1]][path[p][2]] = 1],
                                  p + 1)

\* augment_path: along the first path_count entries of the path a star is
\* unmarked and any other cell is starred, one entry after the other.  An
\* entry that is no cell of the mask is read and written outside of it.
RECURSIVE augment_path(_, _, _, _)
augment_path(path, path_count, M, p) ==
    IF p >= path_count THEN M
    ELSE IF ~InMask(M, path[p][1], path[p][2])
    THEN augment_path(path, path_count, M, p + 1)
    ELSE augment_path(path, path_count,
                      [M EXCEPT ![path[p][1]][path[p][2]] =
                          IF M[path[p][1]][path[p][2]] = 1 THEN 0 ELSE 1],
                      p + 1)

\* path[i] = v, also for an i past the entries the path holds
Put(path, i, v) ==
    [k \in DOMAIN path \cup {i} |-> IF k = i THEN v ELSE path[k]]

\* One iteration of step5's while loop (lines 341-356), r and c being the
\* locals of step5 and alloc the number of entries of the path buffer.
\* done: no star in the column of the last entry, the loop ends.
\* oob: an index used by the iteration is past the end of its vector.
step5(path, path_count, cc, M, alloc) ==
    LET col == path[path_count - 1][2]
        rr  == IF col \in DOMAIN M THEN find_star_in_col(col, M) ELSE -1
        c2  == find_prime_in_row(rr, cc, M)
    IN  IF rr > -1
        THEN [done |-> FALSE, r |-> rr, c |-> c2,
              path_count |-> path_count + 2,
              path |-> Put(Put(path, path_count, <<rr, col>>),
                           path_count + 1, <<rr, c2>>),
              oob  |-> path_count + 1 >= alloc]
        ELSE [done |-> TRUE, r |-> rr, c |-> cc,
              path_count |-> path_count, path |-> path,
              oob  |-> col \notin DOMAIN M]

\* erase_primes with its test for any mark: the stars are erased as well.
erase_primes_erases_marks(M) ==
    [i \in DOMAIN M |-> [j \in DOMAIN M[i] |-> IF M[i][j] # 0 THEN 0 ELSE M[i][j]]]

\* erase_primes that erases nothing
erase_primes_keeps_primes(M) == M

\* erase_primes
erase_primes(M) ==
    [i \in DOMAIN M |-> [j \in DOMAIN M[i] |-> IF M[i][j] = 2 THEN 0 ELSE M[i][j]]]

\* find_smallest that does not look at the covers: the least entry of all.
find_smallest_of_all(minval, matrix, RowCover, ColCover) ==
    Least({minval} \cup
          {matrix[i][j] : i \in DOMAIN matrix, j \in DOMAIN matrix})

\* find_smallest: the least entry whose row and column are uncovered, and
\* numeric_limits<T>::max() when there is none.
find_smallest(minval, matrix, RowCover, ColCover) ==
    Least({minval} \cup
          {matrix[i][j] : i \in {x \in DOMAIN matrix : RowCover[x] = 0},
                          j \in {y \in DOMAIN matrix : ColCover[y] = 0}})

\* One cell of step6 with the subtraction as the else of the addition: an
\* entry of a covered row has minval added and never subtracted.
step6_cell_else_subtracts(v, rowcov, colcov, minval) ==
    IF rowcov = 1 THEN WrapAdd(v, minval)
    ELSE IF colcov = 0 THEN WrapSub(v, minval)
    ELSE v

\* One cell of step6 where a covered column keeps minval from being added:
\* an entry whose row and column are both covered is left as it is.
step6_cell_skips_both_covered(v, rowcov, colcov, minval) ==
    IF rowcov = 1 /\ colcov = 1 THEN v
    ELSE IF rowcov = 0 /\ colcov = 0 THEN WrapSub(v, minval)
    ELSE v

\* One cell of step6: minval is added in a covered row, then subtracted in
\* an uncovered column.
step6_cell(v, rowcov, colcov, minval) ==
    LET a == IF rowcov = 1 THEN WrapAdd(v, minval) ELSE v
    IN  IF colcov = 0 THEN WrapSub(a, minval) ELSE a

\* One of the two operations on a cell of step6 leaves the range of T.
step6_ovf(v, rowcov, colcov, minval) ==
    LET a == IF rowcov = 1 THEN WrapAdd(v, minval) ELSE v
    IN  \/ rowcov = 1 /\ AddOvf(v, minval)
        \/ colcov = 0 /\ SubOvf(a, minval)

\* step6
step6(matrix, RowCover, ColCover) ==
    LET minval == find_smallest(TMax, matrix, RowCover, ColCover)
    IN  [matrix |-> [i \in DOMAIN matrix |->
                       [j \in DOMAIN matrix[i] |->
                          step6_cell(matrix[i][j], RowCover[i], ColCover[j], minval)]],
         ovf    |-> \E i \in DOMAIN matrix : \E j \in DOMAIN matrix[i] :
                       step6_ovf(matrix[i][j], RowCover[i], ColCover[j], minval)]

\* Step 7 of hungarian: the mask is cut down to the rows and columns of the
\* caller's matrix (lines 506-507).
truncate_mask(M, rows, cols) ==
    [i \in {x \in DOMAIN M : x < rows} |->
        [j \in {y \in DOMAIN M[i] : y < cols} |-> M[i][j]]]

\* output_solution's loops from cell k on (k = j * rows + i, column by
\* column): the caller's entry is added to res at every marked cell.
RECURSIVE output_scan(_, _, _, _, _, _)
output_scan(original, M, rows, cols, k, acc) ==
    LET i == k % rows
        j == k \div rows
    IN  IF rows = 0 \/ k >= rows * cols THEN acc
        ELSE IF M[i][j] # 0
        THEN output_scan(original, M, rows, cols, k + 1,
                         [res |-> WrapAdd(acc.res, original[i][j]),
                          ovf |-> acc.ovf \/ AddOvf(acc.res, original[i][j])])
        ELSE output_scan(original, M, rows, cols, k + 1, acc)

\* output_solution with its row loop one short: the last row is not summed.
output_solution_skips_last_row(original, M, rows, cols) ==
    output_scan(original, M, rows - 1, cols, 0, [res |-> 0, ovf |-> FALSE])

\* output_solution
output_solution(original, M, rows, cols) ==
    output_scan(original, M, rows, cols, 0, [res |-> 0, ovf |-> FALSE])

(* ----------------------- hungarian as a function --------------------- *)

\* step5's loop run to its end, an undefined operation not stopping it: the
\* path it leaves, and whether an index went past the end of a vector.
\* fuel bounds the iterations the operator follows.
RECURSIVE step5_loop(_, _, _, _, _, _)
step5_loop(path, path_count, cc, M, alloc, fuel) ==
    LET s == step5(path, path_count, cc, M, alloc)
    IN  IF s.done \/ fuel = 0
        THEN [path |-> path, path_count |-> path_count, oob |-> s.oob]
        ELSE LET t == step5_loop(s.path, s.path_count, s.c, M, alloc, fuel - 1)
             IN  [t EXCEPT !.oob = s.oob \/ t.oob]

\* One turn of hungarian's while loop (lines 485-514) on the record s of the
\* solver's variables; step4 takes one iteration of its loop per turn.
turn(s) ==
    CASE s.step = 1 ->
            [s EXCEPT !.matrix = step1(s.matrix), !.step = 2]
      [] s.step = 2 ->
            [s EXCEPT !.M = step2(s.matrix, s.M, s.RowCover, s.ColCover),
                      !.RowCover = clear_covers(s.RowCover),
                      !.ColCover = clear_covers(s.ColCover),
                      !.step = 3]
      [] s.step = 3 ->
            [s EXCEPT !.ColCover = step3(s.M, s.ColCover).ColCover,
                      !.step = step3(s.M, s.ColCover).step]
      [] s.step = 4 ->
            LET t == step4(s.matrix, s.M, s.RowCover, s.ColCover,
                           s.path_row_0, s.path_col_0)
            IN  [s EXCEPT !.M = t.M, !.RowCover = t.RowCover,
                          !.ColCover = t.ColCover,
                          !.path_row_0 = t.path_row_0,
                          !.path_col_0 = t.path_col_0, !.step = t.step]
      [] s.step = 5 ->
            LET sz == Size(s.matrix)
                t  == step5_loop([p \in 0..sz |->
                                     IF p = 0 THEN <<s.path_row_0, s.path_col_0>>
                                     ELSE <<0, 0>>],
                                 1, -1, s.M, sz + 1, sz)
            IN  [s EXCEPT !.M = erase_primes(augment_path(t.path, t.path_count, s.M, 0)),
                          !.RowCover = clear_covers(s.RowCover),
                          !.ColCover = clear_covers(s.ColCover),
                          !.step = 3,
                          !.ub = s.ub \/ t.oob]
      [] s.step = 6 ->
            LET t == step6(s.matrix, s.RowCover, s.ColCover)
            IN  [s EXCEPT !.matrix = t.matrix, !.step = 4, !.ub = s.ub \/ t.ovf]
      [] OTHER -> s

\* at most fuel turns of the loop, up to step 7
RECURSIVE turns(_, _)
turns(s, fuel) ==
    IF s.step = 7 \/ fuel = 0 THEN s ELSE turns(turn(s), fuel - 1)

\* the turns followed for a padded matrix of size sz
Fuel(sz) == (sz + 2) * (sz + 2) * (sz + 2) * (sz + 2)

\* hungarian(m, allow) for a matrix m with at least one row, no undefined
\* operation stopping the run: "rejected" (the exception of line 64), or
\* "done" with the final mask, the returned cost and whether the run has
\* met undefined behaviour.
solve(m, allow) ==
    LET rows == Size(m)
        cols == Size(m[0])
        h    == handle_negatives(m, allow)
        sq   == pad_matrix(h.matrix, cols)
        sz   == Size(sq)
        last == turns([matrix |-> sq, M |-> ZeroMatrix(sz, sz),
                       RowCover |-> Zeros(sz), ColCover |-> Zeros(sz),
                       path_row_0 |-> -1, path_col_0 |-> -1,
                       step |-> 1, ub |-> h.ovf],
                      Fuel(sz))
        mask == truncate_mask(last.M, rows, cols)
        out  == output_solution(m, mask, rows, cols)
    IN  IF h.thrown THEN [outcome |-> "rejected"]
        ELSE IF last.step # 7 THEN [outcome |-> "running"]
        ELSE [outcome |-> "done", M |-> mask, result |-> out.res,
              ub |-> last.ub \/ out.ovf]

(* ------------------------------ the state ----------------------------- *)

VARIABLES
    original,         \* the caller's matrix (hungarian's const reference)
    allow_negatives,  \* hungarian's second argument
    input,            \* the caller's matrix as it was passed in (history)
    matrix,           \* the working copy
    M,                \* the mask matrix: 0 unmarked, 1 starred, 2 primed
    RowCover,
    ColCover,
    path_row_0,       \* -1 stands for the indeterminate value before step4
    path_col_0,       \*    assigns them
    path,             \* step5's buffer: path[p] = <<row, col>>
    path_count,       \* step5's local
    r,                \* step5's local
    c,                \* step5's local
    step,             \* 0 until hungarian sets it to 1
    pc,               \* where the call is
    result,           \* the returned cost, once returned
    ub,               \* the first undefined behaviour the run has met
    ran               \* the steps that have run (history)

vars == <<original, allow_negatives, input, matrix, M, RowCover, ColCover,
          path_row_0, path_col_0, path, path_count, r, c, step, pc, result,
          ub, ran>>

\* no value has been returned
NoResult == "none"

\* the entries of path the buffer was allocated with (line 480)
PathAlloc == Size(matrix) + 1

\* What an operation with undefined behaviour may do: go on, or stop the run.
Outcomes(undefined) ==
    IF undefined THEN {"continue", "crash"} ELSE {"continue"}

\* ub after an operation that has (kind # "none") or has not met undefined
\* behaviour
Met(kind) == IF ub = "none" THEN kind ELSE ub

\* The run stops in an operation with undefined behaviour.
Crash(kind) ==
    /\ pc' = "crashed"
    /\ ub' = Met(kind)
    /\ UNCHANGED <<original, allow_negatives, input, matrix, M, RowCover,
                   ColCover, path_row_0, path_col_0, path, path_count, r, c,
                   step, result, ran>>

(* ------------------------------ the inputs ---------------------------- *)

\* the R x C matrices with entries in Vals
Matrices(R, C, Vals) == [0..(R - 1) -> [0..(C - 1) -> Vals]]

\* the matrices of the bounds: 0 to MaxDim rows and columns (no row, or
\* rows with no column, included)
Inputs ==
    UNION {Matrices(R, C, (-MaxNeg)..MaxVal) : R \in 0..MaxDim, C \in 0..MaxDim}

\* the three square matrices of main's tests (lines 560-571)
Scenario1 == Mat(<< <<25, 40, 35>>, <<40, 60, 35>>, <<20, 40, 25>> >>)
Scenario2 == Mat(<< <<64, 18, 75>>, <<97, 60, 24>>, <<87, 63, 15>> >>)
Scenario3 == Mat(<< <<80, 40, 50, 46>>, <<40, 70, 20, 25>>,
                    <<30, 10, 20, 30>>, <<35, 20, 25, 30>> >>)
Scenarios == {Scenario1, Scenario2, Scenario3}

\* The state in which hungarian(m, allow) is entered.
Entered(m, allow) ==
    /\ original = m
    /\ allow_negatives = allow
    /\ input = m
    /\ matrix = <<>>
    /\ M = <<>>
    /\ RowCover = <<>>
    /\ ColCover = <<>>
    /\ path_row_0 = -1
    /\ path_col_0 = -1
    /\ path = <<>>
    /\ path_count = 0
    /\ r = -1
    /\ c = -1
    /\ step = 0
    /\ pc = "start"
    /\ result = NoResult
    /\ ub = "none"
    /\ ran = {}

Init == \E m \in Inputs \cup Scenarios : \E allow \in BOOLEAN : Entered(m, allow)

\* entries at and next to the ends of the range of T
WideVals == {TMin, -1, 0, 1, TMax - 1, TMax}

\* the matrices of 1 to MaxWideDim rows and columns with such entries
WideInputs ==
    UNION {Matrices(R, C, WideVals) : R \in 1..MaxWideDim, C \in 1..MaxWideDim}

InitWide == \E m \in WideInputs : \E allow \in BOOLEAN : Entered(m, allow)

(* ------------------------------ the actions --------------------------- *)

\* The caller's matrix had hungarian worked on it in place of a copy: the
\* shifted entries are the caller's.
caller_matrix_aliased(orig, work) == work

\* The caller's matrix after hungarian has made its working copy (lines
\* 446-455): the copy is a vector of its own, the caller's matrix is only read.
caller_matrix(orig, work) == orig

\* hungarian up to its loop (lines 446-484): the copy, handle_negatives,
\* pad_matrix, the mask, the covers, the path buffer, step = 1.
\* original.begin()->size() of a matrix with no row is undefined: the run
\* stops, or goes on with 0 read as the number of columns.
Start ==
    /\ pc = "start"
    /\ LET rows == Size(original)
           cols == IF rows = 0 THEN 0 ELSE Size(original[0])
           h    == handle_negatives(original, allow_negatives)
           sq   == pad_matrix(h.matrix, cols)
           sz   == Size(sq)
       IN  IF h.thrown
           THEN /\ pc' = "rejected"
                /\ original' = caller_matrix(original, h.matrix)
                /\ UNCHANGED <<allow_negatives, input, matrix, M, RowCover,
                               ColCover, path_row_0, path_col_0, path,
                               path_count, r, c, step, result, ub, ran>>
           ELSE \E o \in Outcomes(rows = 0 \/ h.ovf) :
                   IF o = "crash"
                   THEN Crash(IF rows = 0 THEN "empty" ELSE "overflow")
                   ELSE /\ original' = caller_matrix(original, h.matrix)
                        /\ matrix' = sq
                        /\ M' = ZeroMatrix(sz, sz)
                        /\ RowCover' = Zeros(sz)
                        /\ ColCover' = Zeros(sz)
                        /\ path' = [p \in 0..sz |-> <<0, 0>>]
                        /\ step' = 1
                        /\ pc' = "switch"
                        /\ ub' = Met(IF rows = 0 THEN "empty"
                                     ELSE IF h.ovf THEN "overflow" ELSE "none")
                        /\ UNCHANGED <<allow_negatives, input, path_row_0,
                                       path_col_0, path_count, r, c, result, ran>>

\* case 1
Step1 ==
    /\ pc = "switch" /\ step = 1
    /\ matrix' = step1(matrix)
    /\ step' = 2
    /\ ran' = ran \cup {1}
    /\ UNCHANGED <<original, allow_negatives, input, M, RowCover, ColCover,
                   path_row_0, path_col_0, path, path_count, r, c, pc, result, ub>>

\* case 2
Step2 ==
    /\ pc = "switch" /\ step = 2
    /\ M' = step2(matrix, M, RowCover, ColCover)
    /\ RowCover' = clear_covers(RowCover)
    /\ ColCover' = clear_covers(ColCover)
    /\ step' = 3
    /\ ran' = ran \cup {2}
    /\ UNCHANGED <<original, allow_negatives, input, matrix, path_row_0,
                   path_col_0, path, path_count, r, c, pc, result, ub>>

\* case 3
Step3 ==
    /\ pc = "switch" /\ step = 3
    /\ ColCover' = step3(M, ColCover).ColCover
    /\ step' = step3(M, ColCover).step
    /\ ran' = ran \cup {3}
    /\ UNCHANGED <<original, allow_negatives, input, matrix, M, RowCover,
                   path_row_0, path_col_0, path, path_count, r, c, pc, result, ub>>

\* case 4, one iteration of step4's loop at a time: pc = "step4" between two
\* iterations of one call.
Step4 ==
    /\ \/ pc = "switch" /\ step = 4
       \/ pc = "step4"
    /\ LET s == step4(matrix, M, RowCover, ColCover, path_row_0, path_col_0)
       IN  /\ M' = s.M
           /\ RowCover' = s.RowCover
           /\ ColCover' = s.ColCover
           /\ path_row_0' = s.path_row_0
           /\ path_col_0' = s.path_col_0
           /\ step' = s.step
           /\ pc' = IF s.done THEN "switch" ELSE "step4"
    /\ ran' = ran \cup {4}
    /\ UNCHANGED <<original, allow_negatives, input, matrix, path,
                   path_count, r, c, result, ub>>

\* case 5, the lines before step5's loop (333-340)
Step5Begin ==
    /\ pc = "switch" /\ step = 5
    /\ r' = -1
    /\ c' = -1
    /\ path_count' = 1
    /\ path' = Put(path, 0, <<path_row_0, path_col_0>>)
    /\ pc' = "step5"
    /\ ran' = ran \cup {5}
    /\ UNCHANGED <<original, allow_negatives, input, matrix, M, RowCover,
                   ColCover, path_row_0, path_col_0, step, result, ub>>

\* An iteration of step5's loop that finds a star in the column of the last
\* entry: the star and the prime of its row are appended to the path.  A
\* write past the end of the buffer is undefined.
Step5Extend ==
    /\ pc = "step5"
    /\ LET s == step5(path, path_count, c, M, PathAlloc)
       IN  /\ ~s.done
           /\ \E o \in Outcomes(s.oob) :
                 IF o = "crash" THEN Crash("oob")
                 ELSE /\ path' = s.path
                      /\ path_count' = s.path_count
                      /\ r' = s.r
                      /\ c' = s.c
                      /\ ub' = Met(IF s.oob THEN "oob" ELSE "none")
                      /\ UNCHANGED <<original, allow_negatives, input, matrix,
                                     M, RowCover, ColCover, path_row_0,
                                     path_col_0, step, pc, result, ran>>

\* The last iteration of step5's loop and the lines after it (358-363): the
\* path is augmented, the covers are cleared, the primes erased.
Step5Augment ==
    /\ pc = "step5"
    /\ LET s == step5(path, path_count, c, M, PathAlloc)
       IN  /\ s.done
           /\ \E o \in Outcomes(s.oob) :
                 IF o = "crash" THEN Crash("oob")
                 ELSE /\ r' = s.r
                      /\ M' = erase_primes(augment_path(path, path_count, M, 0))
                      /\ RowCover' = clear_covers(RowCover)
                      /\ ColCover' = clear_covers(ColCover)
                      /\ step' = 3
                      /\ pc' = "switch"
                      /\ ub' = Met(IF s.oob THEN "oob" ELSE "none")
                      /\ UNCHANGED <<original, allow_negatives, input, matrix,
                                     path_row_0, path_col_0, path, path_count,
                                     c, result, ran>>

\* case 6; an addition or subtraction that leaves the range of T is
\* undefined.
Step6 ==
    /\ pc = "switch" /\ step = 6
    /\ LET s == step6(matrix, RowCover, ColCover)
       IN  \E o \in Outcomes(s.ovf) :
              IF o = "crash" THEN Crash("overflow")
              ELSE /\ matrix' = s.matrix
                   /\ step' = 4
                   /\ ran' = ran \cup {6}
                   /\ ub' = Met(IF s.ovf THEN "overflow" ELSE "none")
                   /\ UNCHANGED <<original, allow_negatives, input, M,
                                  RowCover, ColCover, path_row_0, path_col_0,
                                  path, path_count, r, c, pc, result>>

\* original.begin()->size() where a matrix with no row has had 0 read
Columns(m) == IF Size(m) = 0 THEN 0 ELSE Size(m[0])

\* case 7: the mask is cut down to the caller's rows and columns and the
\* loop ends.
Step7 ==
    /\ pc = "switch" /\ step = 7
    /\ M' = truncate_mask(M, Size(original), Columns(original))
    /\ pc' = "return"
    /\ ran' = ran \cup {7}
    /\ UNCHANGED <<original, allow_negatives, input, matrix, RowCover,
                   ColCover, path_row_0, path_col_0, path, path_count, r, c,
                   step, result, ub>>

\* The lines after the loop (517-520): the matrices are printed and
\* output_solution's sum is returned.
Return ==
    /\ pc = "return"
    /\ LET s == output_solution(original, M, Size(original), Columns(original))
       IN  \E o \in Outcomes(Size(original) = 0 \/ s.ovf) :
              IF o = "crash"
              THEN Crash(IF Size(original) = 0 THEN "empty" ELSE "overflow")
              ELSE /\ result' = s.res
                   /\ pc' = "done"
                   /\ ub' = Met(IF Size(original) = 0 THEN "empty"
                                ELSE IF s.ovf THEN "overflow" ELSE "none")
                   /\ UNCHANGED <<original, allow_negatives, input, matrix, M,
                                  RowCover, ColCover, path_row_0, path_col_0,
                                  path, path_count, r, c, step, ran>>

Next ==
    \/ Start
    \/ Step1
    \/ Step2
    \/ Step3
    \/ Step4
    \/ Step5Begin
    \/ Step5Extend
    \/ Step5Augment
    \/ Step6
    \/ Step7
    \/ Return

Spec == Init /\ [][Next]_vars

\* the same solver on the inputs at the ends of T's range
SpecWide == InitWide /\ [][Next]_vars

(* --------------------- what the claims speak about -------------------- *)

\* the caller's matrix has R >= 1 rows and C >= 1 columns
Sized(m) == Size(m) >= 1 /\ Columns(m) >= 1

\* the caller's matrix is N x N with N >= 1
IsSquare(m) == Sized(m) /\ Columns(m) = Size(m)

\* the caller's matrix is R x C with R # C, both at least 1
NonSquare(m) == Sized(m) /\ Columns(m) # Size(m)

\* the caller's matrix has a negative entry
HasNegative(m) == \E x \in Entries(m) : x < 0

\* the larger and the smaller of two numbers
Larger(a, b) == IF a >= b THEN a ELSE b
Smaller(a, b) == IF a <= b THEN a ELSE b

\* the permutations of 0..n-1
Perms(n) ==
    {p \in [0..(n - 1) -> 0..(n - 1)] :
        \A i, j \in 0..(n - 1) : i # j => p[i] # p[j]}

\* the sum of f over the finite set S
RECURSIVE SumOver(_, _)
SumOver(S, f) ==
    IF S = {} THEN 0
    ELSE LET x == CHOOSE y \in S : TRUE
         IN  f[x] + SumOver(S \ {x}, f)

\* The cost of the selection p makes in m: row i takes column p[i] when that
\* is a column of m (with more rows than columns some rows take none, with
\* more columns than rows some columns are taken by no row).
SelectionCost(m, p) ==
    LET taken == {i \in DOMAIN m : p[i] < Columns(m)}
    IN  SumOver(taken, [i \in taken |-> m[i][p[i]]])

\* The least total cost of min(R, C) cells of m, no two in one row or column.
MinCost(m) ==
    Least({SelectionCost(m, p) : p \in Perms(Larger(Size(m), Columns(m)))})

\* the cells of a mask that carry the mark k
Marked(mask, k) ==
    UNION {{<<i, j>> : j \in {y \in DOMAIN mask[i] : mask[i][y] = k}} :
           i \in DOMAIN mask}

\* the starred cells
Starred(mask) == Marked(mask, 1)

\* no two cells of the set share a row or a column
Independent(cells) ==
    \A a, b \in cells : a # b => a[1] # b[1] /\ a[2] # b[2]

\* the sum of m over a set of cells
CellSum(m, cells) == SumOver(cells, [cell \in cells |-> m[cell[1]][cell[2]]])

\* the run has stopped, with a value returned or in an undefined operation
Stopped == pc \in {"done", "crashed"}

(* ------------------------------ the claims ---------------------------- *)

\* C1: for every square N x N input whose arithmetic does not overflow,
\* hungarian returns the minimum over all permutations p of the sum of
\* original[i][p(i)]: a run that has stopped has returned that value.
C1_ReturnsMinimum ==
    (IsSquare(input) /\ ub # "overflow" /\ Stopped)
        => (pc = "done" /\ result = MinCost(input))

\* What holds of C1 in the code: a value that is returned is the minimum.
C1_ReturnedIsMinimum ==
    (IsSquare(input) /\ ub # "overflow" /\ pc = "done")
        => result = MinCost(input)

\* C2, as claimed: the three scenarios return 60, 97 and 140.
C2_AsClaimed ==
    pc = "done" =>
        /\ input = Scenario1 => result = 60
        /\ input = Scenario2 => result = 97
        /\ input = Scenario3 => result = 140

\* C2, amended: every solve of the three scenarios returns, and returns 95,
\* 129 and 111, the minimum costs of the three matrices.
C2_ScenarioCosts ==
    (input \in Scenarios /\ Stopped) =>
        /\ pc = "done"
        /\ input = Scenario1 => result = 95
        /\ input = Scenario2 => result = 129
        /\ input = Scenario3 => result = 111

C2_Witness == pc = "done" /\ input = Scenario3 /\ 5 \in ran /\ 6 \in ran

\* C3: for a square N x N input, when step is 7 the mask holds exactly N
\* starred cells, one in each row and one in each column, and no primed cell.
C3_PermutationAtStep7 ==
    (IsSquare(input) /\ step = 7) =>
        /\ Cardinality(Starred(M)) = Size(input)
        /\ \A i \in DOMAIN M : Cardinality({cell \in Starred(M) : cell[1] = i}) = 1
        /\ \A j \in DOMAIN M : Cardinality({cell \in Starred(M) : cell[2] = j}) = 1
        /\ Marked(M, 2) = {}

C3_Witness ==
    /\ IsSquare(input) /\ Size(input) = 3 /\ step = 7
    /\ 5 \in ran /\ 6 \in ran

\* C4: for an input with negative entries solved with allow_negatives = true,
\* the returned cost is the sum of the caller's unshifted entries at the
\* starred cells of the final mask, and the caller's matrix stays as passed.
C4_CostOfOriginal ==
    (HasNegative(input) /\ allow_negatives) =>
        /\ original = input
        /\ pc = "done" => result = CellSum(input, Starred(M))

C4_Witness ==
    /\ HasNegative(input) /\ allow_negatives /\ pc = "done"
    /\ matrix # input /\ result < 0 /\ 6 \in ran

\* C5: for a non-square R x C input the stars kept by step 7 lie in the
\* caller's region, are min(R, C) cells no two in a row or column, and the
\* returned cost is the least total cost of such a selection: a run that has
\* stopped has returned it.
C5_PaddingCorrect ==
    (NonSquare(input) /\ Stopped) =>
        /\ pc = "done"
        /\ \A cell \in Starred(M) :
               cell[1] < Size(input) /\ cell[2] < Columns(input)
        /\ Cardinality(Starred(M)) = Smaller(Size(input), Columns(input))
        /\ Independent(Starred(M))
        /\ result = MinCost(input)

\* What holds of C5 in the code: the same of every run that returns.
C5_ReturnedIsPaddingCorrect ==
    (NonSquare(input) /\ pc = "done") =>
        /\ \A cell \in Starred(M) :
               cell[1] < Size(input) /\ cell[2] < Columns(input)
        /\ Cardinality(Starred(M)) = Smaller(Size(input), Columns(input))
        /\ Independent(Starred(M))
        /\ result = MinCost(input)

\* C6: with a negative entry and allow_negatives = false the solve ends in
\* the negative-values error before any step runs, returns nothing and
\* leaves the caller's matrix as it was passed in.
C6_NegativesRejected ==
    (HasNegative(input) /\ ~allow_negatives /\ pc # "start") =>
        /\ pc = "rejected"
        /\ ran = {}
        /\ step = 0
        /\ result = NoResult
        /\ original = input

C6_Witness ==
    /\ pc = "rejected" /\ HasNegative(input) /\ ~allow_negatives
    /\ Size(input) = 2 /\ Columns(input) = 2

\* m with k added to every entry
Shifted(m, k) == [i \in DOMAIN m |-> [j \in DOMAIN m[i] |-> m[i][j] + k]]

\* m + k has all its entries in the range of T
Shiftable(m, k) == \A x \in Entries(m) : ~AddOvf(x, k)

\* C7: for every input M (negatives allowed) and every constant k with no
\* arithmetic overflow, the solve of M + k stars the cells the solve of M
\* stars, and its cost is that of M plus k times the number of pairs.
C7_ShiftLaw ==
    (Sized(input) /\ allow_negatives /\ pc = "done" /\ ub = "none") =>
        \A k \in ((-MaxShift)..MaxShift) \ {0} :
            Shiftable(input, k) =>
                LET other == solve(Shifted(input, k), TRUE)
                    pairs == Smaller(Size(input), Columns(input))
                IN  (other.outcome = "done" /\ ~other.ub) =>
                        /\ other.M = M
                        /\ ~AddOvf(result, k * pairs)
                        /\ other.result = result + k * pairs

\* What holds of C7 in the code: the two costs differ by k times the number
\* of pairs, and the same cells are starred when no entry of M or of M + k
\* is the maximum of T, the value of the padding.
C7_ShiftLawBelowMax ==
    (Sized(input) /\ allow_negatives /\ pc = "done" /\ ub = "none") =>
        \A k \in ((-MaxShift)..MaxShift) \ {0} :
            Shiftable(input, k) =>
                LET other == solve(Shifted(input, k), TRUE)
                    pairs == Smaller(Size(input), Columns(input))
                IN  (other.outcome = "done" /\ ~other.ub) =>
                        /\ (TMax \notin Entries(input) \cup Entries(Shifted(input, k)))
                              => other.M = M
                        /\ ~AddOvf(result, k * pairs)
                        /\ other.result = result + k * pairs

\* the input is accepted: R, C >= 1 and no negative entry that is rejected
Accepted == Sized(input) /\ (HasNegative(input) => allow_negatives)

\* C8: for every accepted input the step loop reaches Step 7: a run that has
\* come to its end, no operation of hungarian left to it, has step = 7.
C8_ReachesStep7 == (Accepted /\ Stopped) => step = 7

\* the solve has ended in an error outcome: the exception of line 64, the
\* only one hungarian has
ErrorOutcome == pc = "rejected"

\* C9: when the abs(min) shift or an addition or subtraction of a step leaves
\* the range of T, the solve ends in an error outcome and does not go on
\* with the wrapped value.
C9_OverflowReported == ub = "overflow" => ErrorOutcome

\* C10: an input with no row, or with rows of no column, is rejected at
\* once: no preprocessing and no step runs on it.
C10_EmptyRejected ==
    (~Sized(input) /\ pc # "start") =>
        /\ ErrorOutcome
        /\ matrix = <<>>
        /\ ran = {}

\* C11: in every run of Step 5 every index at which a pair is written into
\* the path buffer is smaller than the sz + 1 entries the buffer was
\* allocated with: the iteration of step5's loop that is about to append
\* two entries leaves no more than sz + 1 entries in the path.
C11_PathWritesInBuffer ==
    pc = "step5" =>
        LET s == step5(path, path_count, c, M, PathAlloc)
        IN  ~s.done => s.path_count <= PathAlloc

\* Step 6 runs in this step, and runs to its end
Step6Runs == pc = "switch" /\ step = 6 /\ pc' = "switch"

\* the value find_smallest gives step6 in this state
Step6Minval == find_smallest(TMax, matrix, RowCover, ColCover)

\* C12, as claimed: Step 6 leaves unchanged every working-matrix entry whose
\* row and column are both covered.
C12_AsClaimed ==
    [][Step6Runs =>
          \A i \in DOMAIN matrix : \A j \in DOMAIN matrix[i] :
              (RowCover[i] = 1 /\ ColCover[j] = 1)
                  => matrix'[i][j] = matrix[i][j]]_vars

\* C12, amended: Step 6 leaves unchanged every working-matrix entry of which
\* exactly one of the row and the column is covered; to an entry whose row
\* and column are both covered it adds the smallest uncovered value, so that
\* the entry is greater than before whenever the sum is in the range of T.
C12_Step6Frame ==
    [][Step6Runs =>
          \A i \in DOMAIN matrix : \A j \in DOMAIN matrix[i] :
              /\ (RowCover[i] = 1) # (ColCover[j] = 1)
                    => matrix'[i][j] = matrix[i][j]
              /\ (/\ RowCover[i] = 1 /\ ColCover[j] = 1
                  /\ ~AddOvf(matrix[i][j], Step6Minval))
                    => /\ matrix'[i][j] = matrix[i][j] + Step6Minval
                       /\ matrix'[i][j] > matrix[i][j]]_vars

\* Step 6 has just run with a row and a column covered
C12_Witness ==
    /\ pc = "switch" /\ step = 4 /\ ub = "none"
    /\ \E i \in DOMAIN RowCover : RowCover[i] = 1
    /\ \E j \in DOMAIN ColCover : ColCover[j] = 1

\* C13: from the end of Step 2 until Step 7 no two starred cells of the mask
\* share a row and no two share a column, after any number of primings of
\* Step 4, augmentations of Step 5 and adjustments of Step 6.
C13_StarsIndependent == 2 \in ran => Independent(Starred(M))

\* stars that Step 5 has augmented, seen after a Step 6, before Step 7
C13_Witness ==
    /\ 5 \in ran /\ 6 \in ran /\ 7 \notin ran /\ pc = "switch"
    /\ Cardinality(Starred(M)) >= 2

\* Step 3 runs in this step
Step3Runs == pc = "switch" /\ step = 3

\* the number of covered columns
CoveredColumns(cover) == Cardinality({cc \in DOMAIN cover : cover[cc] = 1})

\* C14: immediately after every run of Step 3 the number of covered columns
\* equals the number of starred cells of the mask, and the next step is 7
\* exactly when that number is at least the padded size, otherwise 4.
C14_Step3Counts ==
    [][Step3Runs =>
          /\ CoveredColumns(ColCover') = Cardinality(Starred(M'))
          /\ step' = IF CoveredColumns(ColCover') >= Size(M') THEN 7 ELSE 4]_vars

\* Step 3 has just found every column of a padded 3 x 3 mask covered, after
\* runs of Step 3 that went on to Step 4
C14_Witness ==
    /\ pc = "switch" /\ step = 7 /\ 5 \in ran /\ 6 \in ran
    /\ Size(M) = 3 /\ CoveredColumns(ColCover) = 3
    /\ Cardinality(Starred(M)) = 3

\* A run of Step 5 ends in this step: the path is augmented.
Step5Ends == pc = "step5" /\ pc' = "switch"

\* the cells the entries of the path name
PathCells == {path[p] : p \in 0..(path_count - 1)}

\* the cells of a mask
Cells(mask) == UNION {{<<i, j>> : j \in DOMAIN mask[i]} : i \in DOMAIN mask}

\* C15: every run of Step 5 increases the number of starred cells by exactly
\* one: the starred cells of the path become unmarked, its primed cells
\* become starred, and no cell outside the path changes between starred and
\* not starred.
C15_AugmentAddsOneStar ==
    [][Step5Ends =>
          /\ Cardinality(Starred(M')) = Cardinality(Starred(M)) + 1
          /\ PathCells \subseteq Cells(M)
          /\ \A cell \in PathCells :
                /\ M[cell[1]][cell[2]] = 1 => M'[cell[1]][cell[2]] = 0
                /\ M[cell[1]][cell[2]] = 2 => M'[cell[1]][cell[2]] = 1
          /\ \A cell \in Cells(M) \ PathCells :
                (M[cell[1]][cell[2]] = 1) <=> (M'[cell[1]][cell[2]] = 1)]_vars

\* Step 5 has just augmented a path that held a star
C15_Witness ==
    /\ pc = "switch" /\ step = 3 /\ 5 \in ran /\ ub = "none"
    /\ path_count >= 3
    /\ M[path[0][1]][path[0][2]] = 1
    /\ M[path[1][1]][path[1][2]] = 0

\* the primed cells of a row of the mask
PrimesInRow(mask, i) == {j \in DOMAIN mask[i] : mask[i][j] = 2}

\* C16: during Step 5, whenever a starred cell Z1 is found in the column of
\* the last path entry, the row of Z1 holds exactly one primed cell, so that
\* find_prime_in_row assigns the column it returns and the next path entry
\* is a primed cell of the mask.
C16_PrimeInStarRow ==
    pc = "step5" =>
        LET s == step5(path, path_count, c, M, PathAlloc)
        IN  ~s.done =>
               /\ Cardinality(PrimesInRow(M, s.r)) = 1
               /\ s.c \in PrimesInRow(M, s.r)
               /\ s.path[s.path_count - 1] = <<s.r, s.c>>
               /\ M[s.r][s.c] = 2

\* Step 5 has appended a star and the prime of its row to the path and looks
\* at the column of that prime
C16_Witness ==
    /\ pc = "step5" /\ path_count = 3 /\ ub = "none"
    /\ M[path[1][1]][path[1][2]] = 1
    /\ M[path[2][1]][path[2][2]] = 2
    /\ path[2][1] = path[1][1]

\* C17: immediately after every run of Step 6 a cell whose row and column
\* are both uncovered holds zero in the working matrix, so that the Step 4
\* that follows primes a cell before it can go to Step 6 again.
C17_Step6MakesZero ==
    [][Step6Runs =>
          /\ find_a_zero(matrix', RowCover', ColCover') # <<-1, -1>>
          /\ ~step4(matrix', M', RowCover', ColCover',
                    path_row_0', path_col_0').step = 6]_vars

\* Step 6 has just run, rows covered, and has left an uncovered zero in a
\* row that holds a star
C17_Witness ==
    /\ pc = "switch" /\ step = 4 /\ 6 \in ran /\ ub = "none"
    /\ \E i \in DOMAIN RowCover : RowCover[i] = 1
    /\ find_a_zero(matrix, RowCover, ColCover) # <<-1, -1>>
    /\ star_in_row(find_a_zero(matrix, RowCover, ColCover)[1], M)

\* C18: at every entry to Step 3, from Step 2 or from Step 5, the mask holds
\* no primed cell and every row and every column is uncovered; the mask that
\* output_solution reads after Step 7 holds only unmarked and starred cells.
C18_CleanAtStep3 ==
    /\ (pc = "switch" /\ step = 3) =>
          /\ Marked(M, 2) = {}
          /\ \A i \in DOMAIN RowCover : RowCover[i] = 0
          /\ \A j \in DOMAIN ColCover : ColCover[j] = 0
    /\ pc \in {"return", "done"} =>
          \A cell \in Cells(M) : M[cell[1]][cell[2]] \in {0, 1}

\* Step 3 is entered from a Step 5 that followed primings of Step 4 and an
\* adjustment of Step 6
C18_Witness ==
    /\ pc = "switch" /\ step = 3 /\ 5 \in ran /\ 6 \in ran
    /\ Cardinality(Starred(M)) >= 2

\* Step 4 or Step 6 is about to run, or Step 4 is between two iterations of
\* its loop
InSteps4And6 == (pc = "switch" /\ step \in {4, 6}) \/ pc = "step4"

\* C19: whenever Step 4 primes a cell, that cell is not starred: throughout
\* Steps 4 and 6 every starred cell has its row or its column covered, so
\* the uncovered zero find_a_zero chooses is never a starred cell and
\* priming removes no star.
C19_PrimedIsNotStarred ==
    InSteps4And6 =>
        /\ \A cell \in Starred(M) :
               RowCover[cell[1]] = 1 \/ ColCover[cell[2]] = 1
        /\ (step # 6 /\ find_a_zero(matrix, RowCover, ColCover) # <<-1, -1>>) =>
               LET z == find_a_zero(matrix, RowCover, ColCover)
               IN  /\ M[z[1]][z[2]] # 1
                   /\ Starred(step4(matrix, M, RowCover, ColCover,
                                    path_row_0, path_col_0).M) = Starred(M)

\* Step 4 is about to prime a zero in the row of a star, after it has
\* covered a row and uncovered a column
C19_Witness ==
    /\ pc = "step4" /\ ub = "none" /\ 6 \in ran
    /\ \E i \in DOMAIN RowCover : RowCover[i] = 1
    /\ find_a_zero(matrix, RowCover, ColCover) # <<-1, -1>>
    /\ star_in_row(find_a_zero(matrix, RowCover, ColCover)[1], M)

\* the starred and the primed cells
MarkedCells(mask) == Marked(mask, 1) \cup Marked(mask, 2)

\* C20: from the end of Step 2 until Step 7 every cell that is starred or
\* primed in the mask holds zero in the working matrix; no adjustment of
\* Step 6 turns a marked zero into another value.
C20_MarkedAreZero ==
    (2 \in ran /\ pc \in {"switch", "step4", "step5"}) =>
        \A cell \in MarkedCells(M) : matrix[cell[1]][cell[2]] = 0

\* Step 6 has just adjusted a matrix that holds a star and a prime in a
\* covered row
C20_Witness ==
    /\ pc = "switch" /\ step = 4 /\ 6 \in ran /\ ub = "none"
    /\ \E cell \in Marked(M, 2) :
          /\ RowCover[cell[1]] = 1
          /\ star_in_row(cell[1], M)

\* the changes of step the claim lists
StepTransitions ==
    {<<1, 2>>, <<2, 3>>, <<3, 4>>, <<3, 7>>, <<4, 5>>, <<4, 6>>, <<5, 3>>,
     <<6, 4>>}

\* C21: step is 1 when the loop is entered and changes only along 1->2,
\* 2->3, 3->4, 3->7, 4->5, 4->6, 5->3 and 6->4; once step is 7 no step runs
\* again and the working matrix, the covers and the marks of the mask are
\* not changed: the mask is only cut down to the caller's rows and columns.
C21_StepTransitions ==
    [][/\ pc = "start" => (step = 0 /\ (pc' = "switch" => step' = 1))
       /\ (pc # "start" /\ step' # step) => <<step, step'>> \in StepTransitions
       /\ step = 7 =>
             /\ step' = 7
             /\ ran' \subseteq ran \cup {7}
             /\ matrix' = matrix
             /\ RowCover' = RowCover
             /\ ColCover' = ColCover
             /\ Cells(M') \subseteq Cells(M)
             /\ \A cell \in Cells(M') :
                   M'[cell[1]][cell[2]] = M[cell[1]][cell[2]]]_vars

\* A solve of a non-square input has returned: steps 4, 5 and 6 have run,
\* step is 7 and the mask has been cut down.
C21_Witness ==
    /\ pc = "done" /\ step = 7 /\ ran = {1, 2, 3, 4, 5, 6, 7}
    /\ NonSquare(input)
    /\ Cells(M) # Cells(matrix)

====
